---- MODULE Spec2Model ----
(***************************************************************************)
(* A model of expression-parser (src/src/index.js): the tokenizer, the     *)
(* recursive-descent / shunting-yard parser with its two stacks, and the   *)
(* tree-walking evaluator.                                                  *)
(*                                                                          *)
(* Strings are sequences of one-character strings; '' is << >>.            *)
(* Numbers are exact rationals [n, d] (no floating-point rounding).        *)
(***************************************************************************)
EXTENDS Integers, Sequences, FiniteSets, TLC

VARIABLES
    inp,        \* the argument of parse(inp)
    rest,       \* parse's `rest`: the unconsumed remainder
    next,       \* parse's `next`: the current token ('' at end of input)
    operators,  \* the operator stack of parseExpression
    operands,   \* the operand stack of parseExpression
    ctl,        \* the call stack of parse: what is left to run, top last
    status,     \* "running" | "done" (parse returned) | "error" (parse threw)
    err,        \* the Error thrown by parse
    result,     \* the tree parse returned
    vars,       \* evaluate's `vars` argument
    fns,        \* evaluate's `fns` argument
    outcome     \* what evaluate(result, vars, fns) returned or threw

pvars == <<inp, rest, next, operators, operands, ctl, status, err, result>>
evars == <<vars, fns, outcome>>
allvars == <<inp, rest, next, operators, operands, ctl, status, err, result,
             vars, fns, outcome>>

(***************************************************************************)
(* Bounds of the model.                                                     *)
(***************************************************************************)
\* every string over Alphabet up to this length is an input
MaxLen == 3
\* the call inputs f(e1,...,ek) have up to this many arguments
MaxArgs == 3
\* a number whose numerator or denominator exceeds this is NaV
Limit == 30000

(***************************************************************************)
(* Tables and character classes.                                            *)
(***************************************************************************)
Digits == {"0", "1", "2", "3", "4", "5", "6", "7", "8", "9"}

LowerSeq == <<"a","b","c","d","e","f","g","h","i","j","k","l","m",
              "n","o","p","q","r","s","t","u","v","w","x","y","z">>

UpperSeq == <<"A","B","C","D","E","F","G","H","I","J","K","L","M",
              "N","O","P","Q","R","S","T","U","V","W","X","Y","Z">>

Range(s) == { s[i] : i \in DOMAIN s }

variableChars == Range(UpperSeq) \cup Range(LowerSeq) \cup Digits \cup {"_"}

d == Digits \cup {"."}

Whitespace == {" "}

\* the names every object inherits from Object.prototype that a lower-cased
\* identifier token can spell: obj[name] is truthy for them
InheritedNames ==
    { <<"c","o","n","s","t","r","u","c","t","o","r">>,
      <<"_","_","p","r","o","t","o","_","_">> }

\* the value of binaryOperators[tok]: a number, "inherited" (an object of
\* Object.prototype) or "undefined"
binaryOperators(tok) ==
    CASE tok = <<"-">> -> [k |-> "num", n |-> 2]
      [] tok = <<"+">> -> [k |-> "num", n |-> 1]
      [] tok = <<"*">> -> [k |-> "num", n |-> 3]
      [] tok = <<"/">> -> [k |-> "num", n |-> 4]
      [] tok = <<"^">> -> [k |-> "num", n |-> 5]
      [] tok \in InheritedNames -> [k |-> "inherited", n |-> 0]
      [] OTHER -> [k |-> "undefined", n |-> 0]

unaryOperators(tok) ==
    CASE tok = <<"-">> -> [k |-> "num", n |-> 6]
      [] tok \in InheritedNames -> [k |-> "inherited", n |-> 0]
      [] OTHER -> [k |-> "undefined", n |-> 0]

\* JavaScript truthiness of a table lookup (no entry of the tables is 0)
Truthy(v) == v.k # "undefined"

(***************************************************************************)
(* Errors.                                                                  *)
(***************************************************************************)
NoErr == [msg |-> "", arg |-> << >>]

error(msg, arg) == [msg |-> msg, arg |-> arg]

(***************************************************************************)
(* Tokenizer.                                                               *)
(***************************************************************************)
substr(str, i) == SubSeq(str, i + 1, Len(str))

elem(ch, set) == Len(ch) > 0 /\ ch[1] \in set

ToLower(ch) ==
    IF \E i \in DOMAIN UpperSeq : UpperSeq[i] = ch
    THEN LowerSeq[CHOOSE i \in DOMAIN UpperSeq : UpperSeq[i] = ch]
    ELSE ch

toLowerCase(str) == [i \in DOMAIN str |-> ToLower(str[i])]

\* the length of the longest prefix of str whose characters are all in set
RECURSIVE RunLen(_, _)
RunLen(str, set) ==
    IF Len(str) > 0 /\ str[1] \in set THEN 1 + RunLen(Tail(str), set) ELSE 0

readVar(str) ==
    LET n == RunLen(str, variableChars)
    IN  [err |-> NoErr, tok |-> toLowerCase(SubSeq(str, 1, n)), rest |-> substr(str, n)]

readNumber(str) ==
    LET n == RunLen(str, d)
        run == SubSeq(str, 1, n)
        periodCount == Cardinality({ i \in 1..n : run[i] = "." })
    IN  IF periodCount > 1
        THEN [err |-> error("Invalid Number: ", run), tok |-> << >>, rest |-> str]
        ELSE [err |-> NoErr, tok |-> run, rest |-> substr(str, n)]

End == [err |-> NoErr, tok |-> << >>, rest |-> << >>]

\* _consume(str): [err, tok, rest]; err # NoErr when it throws
consume_(str) ==
    LET i == RunLen(str, Whitespace)
        s == substr(str, i)
        ch == <<s[1]>>
    IN  IF Len(str) = 0 \/ Len(s) = 0 THEN End
        ELSE IF Truthy(binaryOperators(ch)) \/ Truthy(unaryOperators(ch))
                \/ ch = <<"(">> \/ ch = <<")">> \/ ch = <<",">>
        THEN [err |-> NoErr, tok |-> ch, rest |-> substr(s, 1)]
        ELSE IF elem(ch, d) THEN readNumber(s)
        ELSE IF elem(ch, variableChars) THEN readVar(s)
        ELSE [err |-> error("Invalid syntax at \"", ch), tok |-> << >>, rest |-> str]

isNumber(str) == elem(str, d)

isVariable(str) == elem(str, variableChars)

(***************************************************************************)
(* AST nodes.  BinOp extends UnOp, so a BinOp is an instance of UnOp too.  *)
(***************************************************************************)
Undefined == [kind |-> "Undefined"]

sentinel == [kind |-> "Sentinel", value |-> <<"s">>]

Num(v) == [kind |-> "Num", value |-> v]

Var(v) == [kind |-> "Var", value |-> v]

unary(t) == [kind |-> "UnOp", value |-> t, left |-> Undefined]

binary(t) == [kind |-> "BinOp", value |-> t, left |-> Undefined, right |-> Undefined]

Func(v, length) == [kind |-> "Func", value |-> v, length |-> length, args |-> << >>]

IsSentinel(n) == n.kind = "Sentinel"

IsBinOp(n) == n.kind = "BinOp"

IsUnOp(n) == n.kind \in {"UnOp", "BinOp"}

IsFunc(n) == n.kind = "Func"

top(stack) == IF Len(stack) = 0 THEN Undefined ELSE stack[Len(stack)]

\* stack.pop(): the stack without its last element (an empty stack stays empty)
Pop(stack) == IF Len(stack) = 0 THEN stack ELSE SubSeq(stack, 1, Len(stack) - 1)

(***************************************************************************)
(* Precedence.  getPrecedence() yields a number, Infinity (Func),          *)
(* -Infinity (Sentinel) or, for an operator named by an inherited          *)
(* property, an object that `<` converts to NaN.                           *)
(***************************************************************************)
getPrecedence(n) ==
    CASE IsSentinel(n) -> [k |-> "-Infinity", n |-> 0]
      [] IsFunc(n)     -> [k |-> "Infinity", n |-> 0]
      [] IsBinOp(n)    -> binaryOperators(n.value)
      [] IsUnOp(n)     -> unaryOperators(n.value)
      [] OTHER         -> [k |-> "undefined", n |-> 0]

\* a < b on the values getPrecedence returns (any comparison with NaN is false)
Less(a, b) ==
    CASE a.k \in {"inherited", "undefined"} \/ b.k \in {"inherited", "undefined"} -> FALSE
      [] a.k = "-Infinity" -> b.k # "-Infinity"
      [] a.k = "Infinity"  -> FALSE
      [] b.k = "-Infinity" -> FALSE
      [] b.k = "Infinity"  -> TRUE
      [] OTHER             -> a.n < b.n

(***************************************************************************)
(* popOperator: reduce the operator on top of the operator stack.          *)
(* The result is the pair of stacks after the call.                        *)
(***************************************************************************)
RECURSIVE pushArgsAppend(_, _)
pushArgsAppend(operator, opnds) ==
    IF Len(operator.args) < operator.length
    THEN pushArgsAppend([operator EXCEPT !.args = Append(operator.args, top(opnds))], Pop(opnds))
    ELSE [operator |-> operator, operands |-> opnds]

\* Func.pushArg, called until args.length reaches length: each operand popped
\* is put at the front of args (an empty operand stack pops undefined)
RECURSIVE pushArgs(_, _)
pushArgs(operator, opnds) ==
    IF Len(operator.args) < operator.length
    THEN pushArgs([operator EXCEPT !.args = <<top(opnds)>> \o operator.args], Pop(opnds))
    ELSE [operator |-> operator, operands |-> opnds]

popOperatorNoFunc(ops, opnds) ==
    LET t == top(ops)
    IN  IF IsBinOp(t)
        THEN LET t1 == top(opnds)
                 t0 == top(Pop(opnds))
             IN  [operators |-> Pop(ops),
                  operands |-> Append(Pop(Pop(opnds)), [t EXCEPT !.left = t0, !.right = t1])]
        ELSE IF IsUnOp(t)
        THEN [operators |-> Pop(ops),
              operands |-> Append(Pop(opnds), [t EXCEPT !.left = top(opnds)])]
        ELSE [operators |-> ops, operands |-> opnds]

popOperator(ops, opnds) ==
    LET t == top(ops)
    IN  IF IsBinOp(t)
        THEN LET t1 == top(opnds)
                 t0 == top(Pop(opnds))
             IN  [operators |-> Pop(ops),
                  operands |-> Append(Pop(Pop(opnds)), [t EXCEPT !.left = t0, !.right = t1])]
        ELSE IF IsUnOp(t)
        THEN [operators |-> Pop(ops),
              operands |-> Append(Pop(opnds), [t EXCEPT !.left = top(opnds)])]
        ELSE IF IsFunc(t)
        THEN LET r == pushArgs(t, opnds)
             IN  [operators |-> Pop(ops), operands |-> Append(r.operands, r.operator)]
        ELSE [operators |-> ops, operands |-> opnds]

(***************************************************************************)
(* The parser.  A frame of ctl is one piece of a function body still to    *)
(* run; a call pushes the callee's frame on top of the caller's next one.  *)
(***************************************************************************)
Frame(pc) == [pc |-> pc]

PushOperatorFrame(op) == [pc |-> "pushOperator", op |-> op]

\* fn is the position of the Func object in the operator stack
FFrame(pc, fn) == [pc |-> pc, fn |-> fn]

TopFrame == ctl[Len(ctl)]

Running(pc) == status = "running" /\ Len(ctl) > 0 /\ TopFrame.pc = pc

\* replace the top frame by the frames fs (the last of fs runs first)
Continue(fs) == ctl' = Pop(ctl) \o fs

\* the tokens still to be handled: the current one and the remainder
Remaining == Len(rest) + (IF next = << >> THEN 0 ELSE 1)

Throw(e) ==
    /\ status' = "error"
    /\ err' = e
    /\ UNCHANGED <<inp, rest, next, operators, operands, ctl, result>>

\* consume(), lines 275-279
Consume ==
    /\ Running("consume")
    /\ LET r == consume_(rest)
       IN  IF r.err # NoErr
           THEN Throw(r.err)
           ELSE /\ next' = r.tok
                /\ rest' = r.rest
                /\ Continue(<< >>)
                /\ UNCHANGED <<inp, operators, operands, status, err, result>>
    /\ UNCHANGED evars

\* parseExpression up to its call of E, lines 119-125
ParseExpression ==
    /\ Running("parseExpression")
    /\ operands' = << >>
    /\ operators' = <<sentinel>>
    /\ Continue(<<Frame("PE_expect"), Frame("E")>>)
    /\ UNCHANGED <<inp, rest, next, status, err, result, vars, fns, outcome>>

expectNoEndCase(tok) ==
    IF next = tok THEN NoErr ELSE error("Unexpected \"", next)

expectEndFirst(tok) ==
    IF next = << >> THEN error("Unexpected end of input", << >>)
    ELSE IF next = tok THEN NoErr
    ELSE error("Unexpected end of input", << >>)

\* expect(tok), lines 305-309: the error it throws, or NoErr when it consumes
expect(tok) ==
    IF next = tok THEN NoErr
    ELSE IF next = << >> THEN error("Unexpected end of input", << >>)
    ELSE error("Unexpected \"", next)

\* parseExpression: expect(''), line 126
ParseExpressionExpect ==
    /\ Running("PE_expect")
    /\ IF expect(<< >>) # NoErr
       THEN Throw(expect(<< >>))
       ELSE /\ Continue(<<Frame("PE_return"), Frame("consume")>>)
            /\ UNCHANGED <<inp, rest, next, operators, operands, status, err, result>>
    /\ UNCHANGED evars

\* parseExpression: return operands.pop(), line 127
ParseExpressionReturn ==
    /\ Running("PE_return")
    /\ result' = top(operands)
    /\ operands' = Pop(operands)
    /\ status' = "done"
    /\ Continue(<< >>)
    /\ UNCHANGED <<inp, rest, next, operators, err, vars, fns, outcome>>

\* E: the call of P, line 134
EStart ==
    /\ Running("E")
    /\ Continue(<<[pc |-> "E_while", seen |-> Remaining + 1], Frame("P")>>)
    /\ UNCHANGED <<inp, rest, next, operators, operands, status, err, result>>
    /\ UNCHANGED evars

\* E: one test of the first loop, lines 136-140
EWhile ==
    /\ Running("E_while")
    /\ IF Truthy(binaryOperators(next))
       THEN Continue(<<[pc |-> "E_while", seen |-> Remaining], Frame("P"),
                       Frame("consume"), PushOperatorFrame(binary(next))>>)
       ELSE Continue(<<Frame("E_drain")>>)
    /\ UNCHANGED <<inp, rest, next, operators, operands, status, err, result>>
    /\ UNCHANGED evars

\* E: one test of the second loop, lines 141-143
EDrain ==
    /\ Running("E_drain")
    /\ IF ~IsSentinel(top(operators))
       THEN LET r == popOperator(operators, operands)
            IN  /\ operators' = r.operators
                /\ operands' = r.operands
                /\ UNCHANGED ctl
       ELSE /\ Continue(<< >>)
            /\ UNCHANGED <<operators, operands>>
    /\ UNCHANGED <<inp, rest, next, status, err, result, vars, fns, outcome>>

PushOperatorNoReduce ==
    /\ Running("pushOperator")
    /\ operators' = Append(operators, TopFrame.op)
    /\ Continue(<< >>)
    /\ UNCHANGED <<inp, rest, next, operands, status, err, result, vars, fns, outcome>>

\* pushOperator: one test of its loop, lines 233-238
PushOperator ==
    /\ Running("pushOperator")
    /\ LET op == TopFrame.op
       IN  IF Len(operators) > 0
              /\ Less(getPrecedence(op), getPrecedence(top(operators)))
           THEN LET r == popOperator(operators, operands)
                IN  /\ operators' = r.operators
                    /\ operands' = r.operands
                    /\ UNCHANGED ctl
           ELSE /\ operators' = Append(operators, op)
                /\ Continue(<< >>)
                /\ UNCHANGED operands
    /\ UNCHANGED <<inp, rest, next, status, err, result, vars, fns, outcome>>

\* P: the choice among its branches and each branch up to its first call,
\* lines 154-189
P ==
    /\ Running("P")
    /\ IF isNumber(next)
       THEN /\ operands' = Append(operands, Num(next))
            /\ Continue(<<Frame("consume")>>)
            /\ UNCHANGED <<inp, rest, next, operators, status, err, result>>
       ELSE IF next = <<"(">>
       THEN /\ Continue(<<Frame("P_expect"), Frame("E"), Frame("P_sentinel"),
                          Frame("consume")>>)
            /\ UNCHANGED <<inp, rest, next, operators, operands, status, err, result>>
       ELSE IF Truthy(unaryOperators(next))
       THEN /\ Continue(<<Frame("P"), Frame("consume"), PushOperatorFrame(unary(next))>>)
            /\ UNCHANGED <<inp, rest, next, operators, operands, status, err, result>>
       ELSE IF isVariable(next)
       THEN /\ Continue(<<[pc |-> "P_name", name |-> next], Frame("consume")>>)
            /\ UNCHANGED <<inp, rest, next, operators, operands, status, err, result>>
       ELSE Throw(error("Invalid syntax at \"", next))
    /\ UNCHANGED evars

\* P: operators.push(sentinel), lines 161 and 179
PSentinel ==
    /\ Running("P_sentinel")
    /\ operators' = Append(operators, sentinel)
    /\ Continue(<< >>)
    /\ UNCHANGED <<inp, rest, next, operands, status, err, result, vars, fns, outcome>>

\* P: after the name is consumed, a call or a variable, lines 175-186.
\* pushOperator(fn) pops nothing (Infinity is less than nothing), so fn
\* lands on top of the operator stack as it is now.
PName ==
    /\ Running("P_name")
    /\ IF next = <<"(">>
       THEN /\ Continue(<<Frame("P_expect"), FFrame("F", Len(operators) + 1),
                          Frame("P_sentinel"), Frame("consume"),
                          PushOperatorFrame(Func(TopFrame.name, 0))>>)
            /\ UNCHANGED operands
       ELSE /\ operands' = Append(operands, Var(TopFrame.name))
            /\ Continue(<< >>)
    /\ UNCHANGED <<inp, rest, next, operators, status, err, result, vars, fns, outcome>>

\* P: expect(')'), lines 163 and 181
PExpect ==
    /\ Running("P_expect")
    /\ IF expect(<<")">>) # NoErr
       THEN Throw(expect(<<")">>))
       ELSE /\ Continue(<<Frame("P_pop"), Frame("consume")>>)
            /\ UNCHANGED <<inp, rest, next, operators, operands, status, err, result>>
    /\ UNCHANGED evars

PPopNothing ==
    /\ Running("P_pop")
    /\ Continue(<< >>)
    /\ UNCHANGED <<inp, rest, next, operators, operands, status, err, result, vars, fns, outcome>>

\* P: operators.pop(), lines 164 and 182
PPop ==
    /\ Running("P_pop")
    /\ operators' = Pop(operators)
    /\ Continue(<< >>)
    /\ UNCHANGED <<inp, rest, next, operands, status, err, result, vars, fns, outcome>>

\* fn.length++ on the Func object the frame refers to
IncLength(ops, fn) ==
    [i \in DOMAIN ops |->
        IF i = fn /\ IsFunc(ops[i]) THEN [ops[i] EXCEPT !.length = @ + 1] ELSE ops[i]]

\* F: the call of E, line 195
FStart ==
    /\ Running("F")
    /\ Continue(<<FFrame("F_inc", TopFrame.fn), Frame("E")>>)
    /\ UNCHANGED <<inp, rest, next, operators, operands, status, err, result>>
    /\ UNCHANGED evars

\* F: fn.length++, line 196
FInc ==
    /\ Running("F_inc")
    /\ operators' = IncLength(operators, TopFrame.fn)
    /\ Continue(<<FFrame("F_while", TopFrame.fn)>>)
    /\ UNCHANGED <<inp, rest, next, operands, status, err, result, vars, fns, outcome>>

\* F: one test of its loop, lines 198-202
FWhile ==
    /\ Running("F_while")
    /\ IF next = <<",">>
       THEN /\ operators' = IncLength(operators, TopFrame.fn)
            /\ Continue(<<TopFrame, Frame("E"), Frame("consume")>>)
       ELSE /\ Continue(<< >>)
            /\ UNCHANGED operators
    /\ UNCHANGED <<inp, rest, next, operands, status, err, result, vars, fns, outcome>>

ParseStep ==
    \/ Consume
    \/ ParseExpression
    \/ ParseExpressionExpect
    \/ ParseExpressionReturn
    \/ EStart
    \/ EWhile
    \/ EDrain
    \/ PushOperator
    \/ P
    \/ PSentinel
    \/ PName
    \/ PExpect
    \/ PPop
    \/ FStart
    \/ FInc
    \/ FWhile

(***************************************************************************)
(* Numbers.  A number is [n, d]: the rational n/d in lowest terms when     *)
(* d > 0, and NaV when d = 0: NaN, or a value with no exact rational form  *)
(* (an Infinity, an irrational power, a transcendental function's value).  *)
(***************************************************************************)
Abs(x) == IF x < 0 THEN -x ELSE x

RECURSIVE GCD(_, _)
GCD(a, b) == IF b = 0 THEN a ELSE GCD(b, a % b)

NaV == [n |-> 0, d |-> 0]

IsNaV(x) == x.d = 0

Rat(n, dd) ==
    IF dd = 0 THEN NaV
    ELSE LET g == GCD(Abs(n), Abs(dd))
             sg == IF dd < 0 THEN -1 ELSE 1
         IN  IF Abs(n) \div g > Limit \/ Abs(dd) \div g > Limit THEN NaV
             ELSE [n |-> (sg * n) \div g, d |-> Abs(dd) \div g]

Int2Rat(i) == [n |-> i, d |-> 1]

Add(x, y) == IF IsNaV(x) \/ IsNaV(y) THEN NaV ELSE Rat(x.n * y.d + y.n * x.d, x.d * y.d)

Sub(x, y) == IF IsNaV(x) \/ IsNaV(y) THEN NaV ELSE Rat(x.n * y.d - y.n * x.d, x.d * y.d)

Mul(x, y) == IF IsNaV(x) \/ IsNaV(y) THEN NaV ELSE Rat(x.n * y.n, x.d * y.d)

\* x / y in JavaScript: a zero divisor gives an Infinity or NaN
Div(x, y) == IF IsNaV(x) \/ IsNaV(y) \/ y.n = 0 THEN NaV ELSE Rat(x.n * y.d, x.d * y.n)

Neg(x) == IF IsNaV(x) THEN NaV ELSE [n |-> -x.n, d |-> x.d]

IsZero(x) == ~IsNaV(x) /\ x.n = 0

LessEq(x, y) == x.n * y.d <= y.n * x.d

\* x to the k-th power, k >= 0, by squaring
RECURSIVE IntPow(_, _)
IntPow(x, k) ==
    IF k = 0 THEN Int2Rat(1)
    ELSE LET h == IntPow(x, k \div 2)
         IN  IF k % 2 = 0 THEN Mul(h, h) ELSE Mul(Mul(h, h), x)

\* Math.pow for an integer exponent; any other case is NaV
Pow(x, y) ==
    IF IsNaV(x) \/ IsNaV(y) \/ y.d # 1 THEN NaV
    ELSE IF y.n >= 0 THEN IntPow(x, y.n)
    ELSE Div(Int2Rat(1), IntPow(x, -y.n))

Floor(x) == IF IsNaV(x) THEN NaV ELSE Int2Rat(x.n \div x.d)

Ceil(x) == IF IsNaV(x) THEN NaV ELSE Int2Rat(-((-x.n) \div x.d))

\* Math.round rounds halves up
Round(x) == IF IsNaV(x) THEN NaV ELSE Int2Rat((2 * x.n + x.d) \div (2 * x.d))

RECURSIVE MaxOf(_)
MaxOf(xs) ==
    IF \E i \in DOMAIN xs : IsNaV(xs[i]) THEN NaV
    ELSE IF Len(xs) = 0 THEN NaV
    ELSE IF Len(xs) = 1 THEN xs[1]
    ELSE LET m == MaxOf(Tail(xs)) IN IF LessEq(m, xs[1]) THEN xs[1] ELSE m

RECURSIVE MinOf(_)
MinOf(xs) ==
    IF \E i \in DOMAIN xs : IsNaV(xs[i]) THEN NaV
    ELSE IF Len(xs) = 0 THEN NaV
    ELSE IF Len(xs) = 1 THEN xs[1]
    ELSE LET m == MinOf(Tail(xs)) IN IF LessEq(xs[1], m) THEN xs[1] ELSE m

DigitVal(ch) == CHOOSE i \in 0..9 : <<"0","1","2","3","4","5","6","7","8","9">>[i + 1] = ch

RECURSIVE DigitsVal(_)
DigitsVal(str) ==
    IF Len(str) = 0 THEN 0
    ELSE 10 * DigitsVal(SubSeq(str, 1, Len(str) - 1)) + DigitVal(str[Len(str)])

RECURSIVE Pow10(_)
Pow10(k) == IF k = 0 THEN 1 ELSE 10 * Pow10(k - 1)

\* parseFloat of a token readNumber made (digits with at most one '.'):
\* digits, '.', digits, with a digit on one side at least; else NaN
parseFloat(str) ==
    LET ip == RunLen(str, Digits)
        hasDot == ip < Len(str) /\ str[ip + 1] = "."
        fstr == IF hasDot THEN substr(str, ip + 1) ELSE << >>
        fp == RunLen(fstr, Digits)
    IN  IF ip = 0 /\ fp = 0 THEN NaV
        ELSE Rat(DigitsVal(SubSeq(str, 1, ip)) * Pow10(fp) + DigitsVal(SubSeq(fstr, 1, fp)),
                 Pow10(fp))

(***************************************************************************)
(* The built-in functions (functionList) and the caller's contexts.        *)
(* A declared length is [any, n]: any is TRUE for null (variadic).         *)
(***************************************************************************)
Fixed(n) == [any |-> FALSE, n |-> n]

Variadic == [any |-> TRUE, n |-> 0]

S3(a, b, c) == <<a, b, c>>

functionList ==
    { [name |-> <<"f","l","o","o","r">>, length |-> Fixed(1), fn |-> "floor"],
      [name |-> <<"c","e","i","l">>, length |-> Fixed(1), fn |-> "ceil"],
      [name |-> <<"r","o","u","n","d">>, length |-> Fixed(1), fn |-> "round"],
      [name |-> S3("s","i","n"), length |-> Fixed(1), fn |-> "transcendental"],
      [name |-> S3("c","o","s"), length |-> Fixed(1), fn |-> "transcendental"],
      [name |-> S3("t","a","n"), length |-> Fixed(1), fn |-> "transcendental"],
      [name |-> <<"a","s","i","n">>, length |-> Fixed(1), fn |-> "transcendental"],
      [name |-> <<"a","c","o","s">>, length |-> Fixed(1), fn |-> "transcendental"],
      [name |-> <<"a","t","a","n">>, length |-> Fixed(1), fn |-> "transcendental"],
      [name |-> S3("l","o","g"), length |-> Fixed(1), fn |-> "transcendental"],
      [name |-> <<"l","o","g","1","0">>, length |-> Fixed(1), fn |-> "transcendental"],
      [name |-> S3("e","x","p"), length |-> Fixed(1), fn |-> "transcendental"],
      [name |-> S3("p","o","w"), length |-> Fixed(2), fn |-> "pow"],
      [name |-> <<"s","i","n","h">>, length |-> Fixed(1), fn |-> "transcendental"],
      [name |-> <<"c","o","s","h">>, length |-> Fixed(1), fn |-> "transcendental"],
      [name |-> <<"t","a","n","h">>, length |-> Fixed(1), fn |-> "transcendental"],
      [name |-> S3("m","a","x"), length |-> Variadic, fn |-> "max"],
      [name |-> S3("m","i","n"), length |-> Variadic, fn |-> "min"] }

\* obj[name] on a table of entries: the entry, or "undefined"
NoFunc == [name |-> << >>, length |-> Variadic, fn |-> "undefined"]

Lookup(table, name) ==
    IF \E e \in table : e.name = name THEN CHOOSE e \in table : e.name = name ELSE NoFunc

\* func.fn.apply(null, args)
Apply(fn, args) ==
    CASE fn = "floor" -> Floor(args[1])
      [] fn = "ceil"  -> Ceil(args[1])
      [] fn = "round" -> Round(args[1])
      [] fn = "pow"   -> Pow(args[1], args[2])
      [] fn = "max"   -> MaxOf(args)
      [] fn = "min"   -> MinOf(args)
      [] fn = "add5"  -> Add(args[1], Int2Rat(5))
      [] fn = "multiply3" -> Mul(Mul(args[1], args[2]), args[3])
      [] fn = "count" -> Int2Rat(Len(args))
      [] OTHER        -> NaV

(***************************************************************************)
(* evaluate.  Its result is [st, v, err, calls]: st is "ok" (v returned),  *)
(* "err" (err thrown) or "outside" (the value left the rationals, and the  *)
(* model says nothing more); calls lists the functions invoked, in order.  *)
(***************************************************************************)
Returned(v, calls) ==
    [st |-> IF IsNaV(v) THEN "outside" ELSE "ok", v |-> v, err |-> NoErr, calls |-> calls]

Thrown(e, calls) == [st |-> "err", v |-> NaV, err |-> e, calls |-> calls]

NullContext == [null |-> TRUE, m |-> {}]

Context(m) == [null |-> FALSE, m |-> m]

\* functionList[name] || (fns ? fns[name] : undefined), lines 347-348
ResolveCallerFirst(name, fs) ==
    IF ~fs.null /\ Lookup(fs.m, name) # NoFunc
    THEN [src |-> "caller", func |-> Lookup(fs.m, name)]
    ELSE [src |-> "built-in", func |-> Lookup(functionList, name)]

Resolve(name, fs) ==
    IF Lookup(functionList, name) # NoFunc
    THEN [src |-> "built-in", func |-> Lookup(functionList, name)]
    ELSE [src |-> "caller", func |-> IF fs.null THEN NoFunc ELSE Lookup(fs.m, name)]

\* func.length !== null && func.length !== tree.args.length, line 351
ArityMismatchTooFewOnly(func, k) == ~func.length.any /\ func.length.n > k

ArityMismatch(func, k) == ~func.length.any /\ func.length.n # k

ArityError(name, func, k) ==
    [msg |-> "Function expected arguments", arg |-> name,
     expected |-> func.length.n, got |-> k]

DivisionCheckLiteralOnly(tree, r) == tree.right.kind = "Num" /\ IsZero(r)

\* r === 0, line 340
DivisionCheck(tree, r) == IsZero(r)

RECURSIVE evaluate(_, _, _)
RECURSIVE evaluateArgs(_, _, _, _)

\* tree.args.map(a => evaluate(a, vars, fns)) from the i-th argument on:
\* [st, vs, err, calls]
evaluateArgs(args, i, vs, fs) ==
    IF i > Len(args) THEN [st |-> "ok", vs |-> << >>, err |-> NoErr, calls |-> << >>]
    ELSE LET a == evaluate(args[i], vs, fs)
         IN  IF a.st # "ok" THEN [st |-> a.st, vs |-> << >>, err |-> a.err, calls |-> a.calls]
             ELSE LET more == evaluateArgs(args, i + 1, vs, fs)
                  IN  [st |-> more.st, vs |-> <<a.v>> \o more.vs, err |-> more.err,
                       calls |-> a.calls \o more.calls]

evaluate(tree, vs, fs) ==
    IF IsBinOp(tree)
    THEN IF tree.value \notin {<<"^">>, <<"*">>, <<"+">>, <<"-">>, <<"/">>}
         THEN Thrown(error("Unknown operator: ", tree.value), << >>)
         ELSE LET l == evaluate(tree.left, vs, fs)
              IN  IF l.st # "ok" THEN l
                  ELSE LET r == evaluate(tree.right, vs, fs)
                           calls == l.calls \o r.calls
                       IN  IF r.st # "ok" THEN [r EXCEPT !.calls = calls]
                           ELSE CASE tree.value = <<"^">> -> Returned(Pow(l.v, r.v), calls)
                                  [] tree.value = <<"*">> -> Returned(Mul(l.v, r.v), calls)
                                  [] tree.value = <<"+">> -> Returned(Add(l.v, r.v), calls)
                                  [] tree.value = <<"-">> -> Returned(Sub(l.v, r.v), calls)
                                  [] tree.value = <<"/">> ->
                                        IF DivisionCheck(tree, r.v)
                                        THEN Thrown(error("Division by zero", << >>), calls)
                                        ELSE Returned(Div(l.v, r.v), calls)
    ELSE IF IsFunc(tree)
    THEN LET res == Resolve(tree.value, fs)
             func == res.func
             k == Len(tree.args)
         IN  IF func = NoFunc
             THEN Thrown(error("Unknown function: \"", tree.value), << >>)
             ELSE IF ArityMismatch(func, k)
             THEN Thrown(ArityError(tree.value, func, k), << >>)
             ELSE LET as == evaluateArgs(tree.args, 1, vs, fs)
                  IN  IF as.st # "ok"
                      THEN [st |-> as.st, v |-> NaV, err |-> as.err, calls |-> as.calls]
                      ELSE Returned(Apply(func.fn, as.vs),
                                    Append(as.calls, [src |-> res.src, name |-> tree.value,
                                                      fn |-> func.fn, args |-> as.vs]))
    ELSE IF IsUnOp(tree)
    THEN IF tree.value # <<"-">>
         THEN Thrown(error("Unknown function: ", tree.value), << >>)
         ELSE LET l == evaluate(tree.left, vs, fs)
              IN  IF l.st # "ok" THEN l ELSE Returned(Neg(l.v), l.calls)
    ELSE IF tree.kind = "Num"
    THEN LET num == parseFloat(tree.value)
         IN  IF IsNaV(num) THEN Thrown(error("Invalid Number: ", tree.value), << >>)
             ELSE Returned(num, << >>)
    ELSE IF tree.kind = "Var"
    THEN IF vs.null \/ ~(\E e \in vs.m : e.name = tree.value)
         THEN Thrown(error("Unknown variable: \"", tree.value), << >>)
         ELSE LET num == (CHOOSE e \in vs.m : e.name = tree.value).val
              IN  IF IsNaV(num) THEN Thrown(error("Invalid Number: ", tree.value), << >>)
                  ELSE Returned(num, << >>)
    ELSE Returned(NaV, << >>)

(***************************************************************************)
(* The inputs of parse and the contexts of evaluate.                        *)
(***************************************************************************)
Alphabet == {"0", "1", ".", "a", "+", "-", "*", "/", "^", "(", ")", ",", " ", "$"}

\* every string over Alphabet of length at most n
RECURSIVE AllStrings(_)
AllStrings(n) ==
    IF n = 0 THEN {<< >>}
    ELSE LET shorter == AllStrings(n - 1)
         IN  shorter \cup { Append(str, ch) : str \in { x \in shorter : Len(x) = n - 1 },
                                              ch \in Alphabet }

BinaryOps == {<<"+">>, <<"-">>, <<"*">>, <<"/">>, <<"^">>}

\* primaries, each with the tree P makes of it
Prims ==
    { [s |-> <<"8">>, t |-> Num(<<"8">>)],
      [s |-> <<"-","2">>, t |-> [kind |-> "UnOp", value |-> <<"-">>, left |-> Num(<<"2">>)]],
      [s |-> <<"(","4",")">>, t |-> Num(<<"4">>)],
      [s |-> <<"x">>, t |-> Var(<<"x">>)],
      [s |-> <<"f","(","1",",","3",")">>,
       t |-> [kind |-> "Func", value |-> <<"f">>, length |-> 2,
              args |-> <<Num(<<"1">>), Num(<<"3">>)>>]] }

\* a op1 b op2 c
Chain(a, op1, b, op2, c) == a \o op1 \o b \o op2 \o c

Chains ==
    { Chain(a.s, op1, b.s, op2, c.s) : a \in Prims, b \in Prims, c \in Prims,
                                       op1 \in BinaryOps, op2 \in BinaryOps }

\* (a op1 b) op2 c and a op1 (b op2 c)
GroupLeft(op1, op2) == <<"(", "8">> \o op1 \o <<"4", ")">> \o op2 \o <<"x">>

GroupRight(op1, op2) == <<"8">> \o op1 \o <<"(", "4">> \o op2 \o <<"x", ")">>

Groups ==
    { GroupLeft(op1, op2) : op1 \in BinaryOps, op2 \in BinaryOps }
    \cup { GroupRight(op1, op2) : op1 \in BinaryOps, op2 \in BinaryOps }

\* argument expressions, each with the tree E makes of it
ArgExprs ==
    { [s |-> <<"1">>, t |-> Num(<<"1">>)],
      [s |-> <<"a","+","2","*","3">>,
       t |-> [kind |-> "BinOp", value |-> <<"+">>, left |-> Var(<<"a">>),
              right |-> [kind |-> "BinOp", value |-> <<"*">>, left |-> Num(<<"2">>),
                         right |-> Num(<<"3">>)]]],
      [s |-> <<"(","4",")">>, t |-> Num(<<"4">>)],
      [s |-> <<"g","(","5",",","h","(","6",")",")">>,
       t |-> [kind |-> "Func", value |-> <<"g">>, length |-> 2,
              args |-> <<Num(<<"5">>),
                         [kind |-> "Func", value |-> <<"h">>, length |-> 1,
                          args |-> <<Num(<<"6">>)>>]>>]] }

\* the strings of es joined by sep
RECURSIVE Join(_, _)
Join(es, sep) ==
    IF Len(es) = 0 THEN << >>
    ELSE IF Len(es) = 1 THEN es[1]
    ELSE es[1] \o sep \o Join(Tail(es), sep)

ArgLists == UNION { [1..k -> ArgExprs] : k \in 1..MaxArgs }

CallOf(name, as) == name \o <<"(">> \o Join([i \in DOMAIN as |-> as[i].s], <<",">>) \o <<")">>

Calls == { CallOf(<<"f">>, as) : as \in ArgLists }

\* name(1,2,...,k) for the names evaluate resolves
CallNames ==
    { S3("m","a","x"), S3("p","o","w"), <<"f","l","o","o","r">>, <<"a","d","d","5">>,
      <<"m","u","l","t","i","p","l","y","3">>, <<"n">>, <<"h">> }

DigitArgs(k) == [i \in 1..k |-> [s |-> <<<<"1","2","3","4","5","6","7","8","9">>[i]>>]]

NamedCalls == { CallOf(name, DigitArgs(k)) : name \in CallNames, k \in 1..MaxArgs }

Samples ==
    { <<"1"," ","+"," ","2">>,
      <<"a"," ","*"," ","p","i","^","2">>,
      <<"m","a","x","(","1",","," ","3",","," ","s","i","n","(","1",")",")">>,
      <<"5","+","3",".","1","2","*","2","^","4","/","1","+","3","*","(","1","9","-","3",")">>,
      <<"a","d","d","5","(","3",")">>,
      <<"a","(","2",")">>,
      <<"1"," ","/"," ","0">>,
      <<"(","1","+","2",")",")">>,
      <<"(","(","1","+","2",")">>,
      <<"m","u","l","t","i","p","l","y","3","(","3",","," ","4",")">>,
      <<"m","u","l","t","i","p","l","y","3","(","3",","," ","4",","," ","5",","," ","6",","," ","7",")">>,
      <<"m","u","l","t","i","p","l","y","3","(","3",","," ","4",","," ","5",")">>,
      <<"f","l","o","o","r","("," ","1","5"," ","/"," ","2"," ",")">>,
      <<"8","-","4","-","2">>,
      <<"8","/","4","/","2">>,
      <<"2","^","3","^","2">>,
      <<"1","/","(","2","-","2",")">>,
      <<"1","/","(","a","-","3",")">>,
      <<"A","2","*","a","2">>,
      <<"1",".","5",".","2","+","1">>,
      <<"1"," ","c","o","n","s","t","r","u","c","t","o","r"," ","2">>,
      <<"_","_","p","r","o","t","o","_","_"," ","1">>,
      <<"f","(","1",",">>,
      <<"m","a","x","(","1",",","2",")">>,
      <<"r","o","u","n","d","(","-","5","/","2",")","+","c","e","i","l","(",".","5",")">>,
      <<"f","(","1",",","(","n","(","2",",","a",")","+","1",")",")">> }

\* every prefix of every string of strs
Prefixes(strs) == UNION { { SubSeq(str, 1, n) : n \in 0..Len(str) } : str \in strs }

Inputs == AllStrings(MaxLen) \cup Chains \cup Groups \cup Calls \cup NamedCalls
          \cup Prefixes(Samples)

VarContexts ==
    { NullContext,
      Context({ [name |-> <<"a">>, val |-> Int2Rat(3)],
                [name |-> <<"p","i">>, val |-> Rat(22, 7)],
                [name |-> <<"a","2">>, val |-> Int2Rat(2)] }),
      Context({ [name |-> <<"a">>, val |-> Int2Rat(0)],
                [name |-> <<"x">>, val |-> NaV] }) }

FnContexts ==
    { NullContext,
      Context({ [name |-> <<"a","d","d","5">>, length |-> Fixed(1), fn |-> "add5"],
                [name |-> <<"m","u","l","t","i","p","l","y","3">>, length |-> Fixed(3),
                 fn |-> "multiply3"] }),
      Context({ [name |-> S3("m","a","x"), length |-> Fixed(1), fn |-> "add5"],
                [name |-> <<"n">>, length |-> Variadic, fn |-> "count"],
                [name |-> <<"f">>, length |-> Fixed(2), fn |-> "pow"] }) }

(***************************************************************************)
(* The specification.                                                       *)
(***************************************************************************)
NotEvaluated == [st |-> "none", v |-> NaV, err |-> NoErr, calls |-> << >>]

\* parse(inp) about to make its first call of consume, lines 112-114
Init ==
    /\ inp \in Inputs
    /\ rest = inp
    /\ next = << >>
    /\ operators = << >>
    /\ operands = << >>
    /\ ctl = <<Frame("parseExpression"), Frame("consume")>>
    /\ status = "running"
    /\ err = NoErr
    /\ result = Undefined
    /\ vars = NullContext
    /\ fns = NullContext
    /\ outcome = NotEvaluated

\* evaluate(tree, vars, fns) on the tree parse returned, lines 326-381
Evaluate ==
    /\ status = "done"
    /\ outcome = NotEvaluated
    /\ \E vs \in VarContexts, fs \in FnContexts :
          /\ vars' = vs
          /\ fns' = fs
          /\ outcome' = evaluate(result, vs, fs)
    /\ UNCHANGED pvars

Next == ParseStep \/ Evaluate

Spec == Init /\ [][Next]_allvars

\* parse runs to its end without suspension
FairSpec == Spec /\ WF_allvars(ParseStep)

(***************************************************************************)
(* Notions the properties are stated with.                                  *)
(***************************************************************************)
\* the tokens of str, up to its end or to the first one _consume rejects
RECURSIVE Tokens(_)
Tokens(str) ==
    LET r == consume_(str)
    IN  IF r.err # NoErr \/ r.tok = << >> THEN << >> ELSE <<r.tok>> \o Tokens(r.rest)

\* what parse has consumed of inp, the current token included
Consumed == SubSeq(inp, 1, Len(inp) - Len(rest))

Count(str, ch) == Cardinality({ i \in DOMAIN str : str[i] = ch })

\* a token the parser takes for an operator wherever it stands
IsOperatorToken(tok) == Truthy(binaryOperators(tok)) \/ Truthy(unaryOperators(tok))

\* a token after which a primary must follow
ExpectsPrimary(tok) == IsOperatorToken(tok) \/ tok = <<"(">> \/ tok = <<",">>

IsName(tok) == Len(tok) > 0 /\ tok[1] \in (variableChars \ Digits) /\ ~IsOperatorToken(tok)

BinaryNode(op, l, r) == [kind |-> "BinOp", value |-> op, left |-> l, right |-> r]

CallNode(name, args) == [kind |-> "Func", value |-> name, length |-> Len(args), args |-> args]

\* the precedence table as the specification gives it
TablePrecedence(op) ==
    CASE op = <<"^">> -> 5 [] op = <<"/">> -> 4 [] op = <<"*">> -> 3
      [] op = <<"-">> -> 2 [] op = <<"+">> -> 1

ParserFailed == status = "error" /\ TopFrame.pc # "consume"

Evaluated == outcome # NotEvaluated

RECURSIVE Subtrees(_)
Subtrees(t) ==
    {t} \cup
    (CASE IsBinOp(t) -> Subtrees(t.left) \cup Subtrees(t.right)
       [] IsUnOp(t) /\ ~IsBinOp(t) -> Subtrees(t.left)
       [] IsFunc(t) -> UNION { Subtrees(t.args[i]) : i \in DOMAIN t.args }
       [] OTHER -> {})

\* every node of t is a Num, Var, UnOp, BinOp or Func with all its children
Whole(t) == \A n \in Subtrees(t) : n.kind \in {"Num", "Var", "UnOp", "BinOp", "Func"}

NumSentinels(ops) == Cardinality({ i \in DOMAIN ops : IsSentinel(ops[i]) })

NumFrames(pcs) == Cardinality({ i \in DOMAIN ctl : ctl[i].pc \in pcs })

\* the next step is a call of popOperator
Reducing ==
    \/ Running("E_drain") /\ ~IsSentinel(top(operators))
    \/ /\ Running("pushOperator")
       /\ Len(operators) > 0
       /\ Less(getPrecedence(TopFrame.op), getPrecedence(top(operators)))

(***************************************************************************)
(* C1.  Repeated applications of one binary operator associate left to     *)
(* right: parse('a op b op c') is BinOp(op, BinOp(op, a, b), c) for every  *)
(* operator and all primaries, and so 8-4-2 evaluates to 2, 8/4/2 to 1.    *)
(***************************************************************************)
C1_LeftTrees ==
    { <<Chain(a.s, op, b.s, op, c.s), BinaryNode(op, BinaryNode(op, a.t, b.t), c.t)>> :
         a \in Prims, b \in Prims, c \in Prims, op \in BinaryOps }

C1_LeftAssociative ==
    /\ status = "done" /\ inp \in { p[1] : p \in C1_LeftTrees }
          => <<inp, result>> \in C1_LeftTrees
    /\ Evaluated /\ inp = <<"8","-","4","-","2">> => outcome.v = Int2Rat(2)
    /\ Evaluated /\ inp = <<"8","/","4","/","2">> => outcome.v = Int2Rat(1)

(***************************************************************************)
(* C2.  Of two adjacent binary operators of different precedence the       *)
(* higher one binds tighter, whichever comes first; a parenthesized group  *)
(* is reduced to one operand before an operator outside it is applied.     *)
(***************************************************************************)
C2_Trees ==
    { <<Chain(a.s, o[1], b.s, o[2], c.s),
        IF TablePrecedence(o[1]) > TablePrecedence(o[2])
        THEN BinaryNode(o[2], BinaryNode(o[1], a.t, b.t), c.t)
        ELSE BinaryNode(o[1], a.t, BinaryNode(o[2], b.t, c.t))>> :
         a \in Prims, b \in Prims, c \in Prims,
         o \in { x \in BinaryOps \X BinaryOps : TablePrecedence(x[1]) # TablePrecedence(x[2]) } }
    \cup { <<GroupLeft(op1, op2),
             BinaryNode(op2, BinaryNode(op1, Num(<<"8">>), Num(<<"4">>)), Var(<<"x">>))>> :
              op1 \in BinaryOps, op2 \in BinaryOps }
    \cup { <<GroupRight(op1, op2),
             BinaryNode(op1, Num(<<"8">>), BinaryNode(op2, Num(<<"4">>), Var(<<"x">>)))>> :
              op1 \in BinaryOps, op2 \in BinaryOps }

C2_PrecedenceGrouping ==
    /\ status = "done" /\ inp \in { p[1] : p \in C2_Trees } => <<inp, result>> \in C2_Trees
    \* when a group closes nothing of it is left on the operator stack
    /\ Running("P_pop") => IsSentinel(top(operators))

C2_Witness ==
    /\ status = "done"
    /\ inp = Chain(<<"-","2">>, <<"*">>, <<"(","4",")">>, <<"+">>, <<"f","(","1",",","3",")">>)
    /\ result.value = <<"+">>
    /\ result.left.value = <<"*">>

(***************************************************************************)
(* C3.  As specified: whenever the input ends while the expression is      *)
(* incomplete (the parser fails at the End token), and on empty input,     *)
(* the message is 'Unexpected end of input'.                               *)
(***************************************************************************)
C3_AlwaysUnexpectedEnd ==
    ParserFailed /\ next = << >> => err = error("Unexpected end of input", << >>)

(***************************************************************************)
(* C3, amended.  When the input ends where a primary is expected (empty    *)
(* input, or right after an operator token, '(' or ',') parse fails with   *)
(* 'Invalid syntax at ""'; when it ends after a complete sub-expression    *)
(* with a '(' still open it fails with 'Unexpected end of input'.          *)
(***************************************************************************)
C3_EndOfInput ==
    ParserFailed /\ next = << >> =>
       LET toks == Tokens(inp)
       IN  IF toks = << >> \/ ExpectsPrimary(toks[Len(toks)])
           THEN err = error("Invalid syntax at \"", << >>)
           ELSE /\ err = error("Unexpected end of input", << >>)
                /\ Count(inp, "(") > Count(inp, ")")

C3_Witness ==
    /\ status = "error"
    /\ inp = <<"(","(","1","+","2",")">>
    /\ next = << >>
    /\ err = error("Unexpected end of input", << >>)

(***************************************************************************)
(* C4.  As specified: wherever a ')' with no unclosed '(' before it stands, *)
(* parse (having failed on no earlier token) fails with 'Unexpected ")"'.  *)
(***************************************************************************)
StrayParen == next = <<")">> /\ Count(Consumed, "(") < Count(Consumed, ")")

C4_AlwaysUnexpectedParen ==
    ParserFailed /\ StrayParen => err = error("Unexpected \"", <<")">>)

(***************************************************************************)
(* C4, amended.  A ')' with no unclosed '(' before it makes parse fail     *)
(* with 'Unexpected ")"' when it follows a complete expression, and with   *)
(* 'Invalid syntax at ")"' when it stands where a primary is expected (at  *)
(* the start of the input or right after an operator token).               *)
(***************************************************************************)
C4_StrayParen ==
    ParserFailed /\ StrayParen =>
       LET toks == Tokens(Consumed)
       IN  IF Len(toks) = 1 \/ ExpectsPrimary(toks[Len(toks) - 1])
           THEN err = error("Invalid syntax at \"", <<")">>)
           ELSE err = error("Unexpected \"", <<")">>)

C4_Witness ==
    /\ status = "error"
    /\ inp = <<"(","1","+","2",")",")">>
    /\ rest = << >>
    /\ err = error("Unexpected \"", <<")">>)

(***************************************************************************)
(* C5.  The args of every Call node of a parsed tree are the trees of the  *)
(* top-level comma-separated sub-expressions between the call's            *)
(* parentheses, one entry each, in source order; also for calls nested in  *)
(* arguments and for arguments that are operator expressions or groups.    *)
(***************************************************************************)
\* the tokens of a tree in source order, each call with its parentheses and
\* the commas between its arguments
RECURSIVE Yield(_)
Yield(t) ==
    CASE IsBinOp(t) -> Yield(t.left) \o <<t.value>> \o Yield(t.right)
      [] IsUnOp(t) /\ ~IsBinOp(t) -> <<t.value>> \o Yield(t.left)
      [] IsFunc(t) ->
            <<t.value, <<"(">>>>
            \o Join([i \in DOMAIN t.args |-> Yield(t.args[i])], << <<",">> >>)
            \o << <<")">> >>
      [] OTHER -> <<t.value>>

\* toks from the i-th on without the parentheses that only group: a '(' right
\* after a name opens a call, and stack tells which ')' closes one
RECURSIVE CallSkeleton(_, _, _)
CallSkeleton(toks, i, stack) ==
    IF i > Len(toks) THEN << >>
    ELSE IF toks[i] = <<"(">>
    THEN LET call == i > 1 /\ IsName(toks[i - 1])
         IN  (IF call THEN <<toks[i]>> ELSE << >>)
             \o CallSkeleton(toks, i + 1, Append(stack, call))
    ELSE IF toks[i] = <<")">>
    THEN (IF Len(stack) > 0 /\ stack[Len(stack)] THEN <<toks[i]>> ELSE << >>)
         \o CallSkeleton(toks, i + 1, Pop(stack))
    ELSE <<toks[i]>> \o CallSkeleton(toks, i + 1, stack)

C5_Trees == { <<CallOf(<<"f">>, as), CallNode(<<"f">>, [i \in DOMAIN as |-> as[i].t])>> :
                 as \in ArgLists }

C5_CallArguments ==
    status = "done" =>
       /\ Yield(result) = CallSkeleton(Tokens(inp), 1, << >>)
       /\ \A n \in Subtrees(result) : IsFunc(n) => Len(n.args) = n.length
       /\ inp \in Calls => <<inp, result>> \in C5_Trees

C5_Witness ==
    /\ status = "done"
    /\ inp = <<"f","(","g","(","5",",","h","(","6",")",")",",","a","+","2","*","3",",",
               "(","4",")",")">>
    /\ Len(result.args) = 3
    /\ result.args[1].value = <<"g">>
    /\ Len(result.args[1].args) = 2
    /\ result.args[3] = Num(<<"4">>)

(***************************************************************************)
(* C6.  A call's name is resolved in the built-in table first and in the   *)
(* caller's functions only when it is no built-in, so a caller's function  *)
(* named like a built-in is never invoked; a name in neither makes         *)
(* evaluate fail with 'Unknown function: "<name>"'.                        *)
(***************************************************************************)
IsBuiltIn(name) == \E e \in functionList : e.name = name

IsCallers(name) == ~fns.null /\ \E e \in fns.m : e.name = name

C6_BuiltInsFirst ==
    Evaluated =>
       /\ \A i \in DOMAIN outcome.calls :
             LET c == outcome.calls[i]
             IN  IF IsBuiltIn(c.name)
                 THEN /\ c.src = "built-in"
                      /\ \E e \in functionList : e.name = c.name /\ e.fn = c.fn
                 ELSE /\ c.src = "caller"
                      /\ ~fns.null
                      /\ \E e \in fns.m : e.name = c.name /\ e.fn = c.fn
       /\ IsFunc(result) /\ ~IsBuiltIn(result.value) /\ ~IsCallers(result.value)
             => outcome.st = "err" /\ outcome.err = error("Unknown function: \"", result.value)
       /\ outcome.err.msg = "Unknown function: \""
             => ~IsBuiltIn(outcome.err.arg) /\ ~IsCallers(outcome.err.arg)

C6_Witness ==
    /\ Evaluated
    /\ inp = <<"m","a","x","(","1",",","2",")">>
    /\ IsCallers(S3("m","a","x"))
    /\ outcome.st = "ok"
    /\ outcome.v = Int2Rat(2)
    /\ outcome.calls[1].src = "built-in"

(***************************************************************************)
(* C7.  A call of a function of fixed arity n with k arguments fails with  *)
(* 'Function "<name>" expected n arguments, but got k' if and only if      *)
(* k # n, for too few and for too many; with k = n the function is invoked *)
(* with the k evaluated arguments.  A variadic function (arity 'any', null *)
(* in the code) is invoked for every k and raises no arity error.          *)
(***************************************************************************)
Declared(name) ==
    IF IsBuiltIn(name) THEN Lookup(functionList, name)
    ELSE IF IsCallers(name) THEN Lookup(fns.m, name)
    ELSE NoFunc

LastCall == outcome.calls[Len(outcome.calls)]

C7_Arity ==
    Evaluated /\ IsFunc(result) /\ Declared(result.value) # NoFunc =>
       LET func == Declared(result.value)
           k == Len(result.args)
           arityError == [msg |-> "Function expected arguments", arg |-> result.value,
                          expected |-> func.length.n, got |-> k]
           invoked == /\ Len(outcome.calls) > 0
                      /\ LastCall.name = result.value
                      /\ Len(LastCall.args) = k
                      /\ \A i \in 1..k :
                            LastCall.args[i] = evaluate(result.args[i], vars, fns).v
       IN  IF func.length.any
           THEN /\ outcome.err.msg = "Function expected arguments"
                      => outcome.err.arg # result.value
                /\ outcome.st = "ok" => invoked
           ELSE /\ (outcome.st = "err" /\ outcome.err = arityError) <=> k # func.length.n
                /\ k = func.length.n /\ outcome.st = "ok" => invoked

C7_Witness ==
    /\ Evaluated
    /\ inp = <<"m","u","l","t","i","p","l","y","3","(","3",","," ","4",","," ","5",",",
               " ","6",","," ","7",")">>
    /\ IsCallers(result.value)
    /\ outcome.err = [msg |-> "Function expected arguments", arg |-> result.value,
                      expected |-> 3, got |-> 5]

(***************************************************************************)
(* C8.  Evaluating BinOp('/', left, right) fails with 'Division by zero'   *)
(* exactly when both operands evaluate without error and the right one's   *)
(* value is zero, be it a literal, a variable or a sub-expression's        *)
(* result; otherwise it returns left divided by right; no other operator   *)
(* raises this error.                                                       *)
(***************************************************************************)
DivisionByZero == error("Division by zero", << >>)

Children(t) ==
    CASE IsBinOp(t) -> {t.left, t.right}
      [] IsUnOp(t) /\ ~IsBinOp(t) -> {t.left}
      [] IsFunc(t) -> { t.args[i] : i \in DOMAIN t.args }
      [] OTHER -> {}

C8_DivisionByZero ==
    Evaluated =>
       \A s \in Subtrees(result) :
          LET e == IF s = result THEN outcome ELSE evaluate(s, vars, fns)
          IN  IF IsBinOp(s) /\ s.value = <<"/">>
              THEN LET l == evaluate(s.left, vars, fns)
                       r == evaluate(s.right, vars, fns)
                   IN  /\ l.st = "ok" /\ r.st = "ok" /\ r.v.n = 0
                             => e.st = "err" /\ e.err = DivisionByZero
                       /\ l.st = "ok" /\ r.st = "ok" /\ r.v.n # 0
                             => e.st # "err" /\ (e.st = "ok" => Mul(e.v, r.v) = l.v)
                       /\ l.st = "err" => e.st = "err" /\ e.err = l.err
                       /\ l.st = "ok" /\ r.st = "err" => e.st = "err" /\ e.err = r.err
              ELSE e.err = DivisionByZero
                      => \E c \in Children(s) : evaluate(c, vars, fns).err = DivisionByZero

C8_Witness ==
    /\ Evaluated
    /\ inp = <<"1","/","(","a","-","3",")">>
    /\ ~vars.null
    /\ outcome.st = "err"
    /\ outcome.err = DivisionByZero

(***************************************************************************)
(* C9.  Stack discipline of one parse call.  From the moment               *)
(* parseExpression has made the stacks, the operator stack is non-empty    *)
(* with the initial sentinel at its bottom and holds one sentinel per open *)
(* group or argument list plus the initial one (the '(' tokens passed less *)
(* the ')' tokens passed, the push and the pop each following its token by *)
(* one step); every reduction finds an operator that is no sentinel on top *)
(* and all the operands it pops, so no node gets an undefined child; and   *)
(* parse returns with only the initial sentinel on the operator stack and  *)
(* exactly one operand, the root, which contains no Sentinel.              *)
(***************************************************************************)
\* the tokens parse has moved past: those consumed, the current one excepted
Passed ==
    LET toks == Tokens(Consumed)
    IN  IF next = << >> \/ toks = << >> THEN toks ELSE SubSeq(toks, 1, Len(toks) - 1)

\* the groups and argument lists opened and not closed by the tokens passed
OpenGroups == Count(Passed, <<"(">>) - Count(Passed, <<")">>)

StacksMade == NumFrames({"parseExpression"}) = 0

\* the operands a reduction of operator pops
Needs(operator) ==
    CASE IsBinOp(operator) -> 2
      [] IsUnOp(operator) /\ ~IsBinOp(operator) -> 1
      [] IsFunc(operator) -> operator.length - Len(operator.args)
      [] OTHER -> 0

C9_StackDiscipline ==
    /\ StacksMade =>
          /\ Len(operators) >= 1
          /\ operators[1] = sentinel
          /\ NumSentinels(operators) =
                1 + NumFrames({"P_expect", "P_pop"}) - NumFrames({"P_sentinel"})
          /\ \A i \in DOMAIN operands : Whole(operands[i])
    /\ StacksMade /\ status # "done" =>
          NumSentinels(operators) =
             CASE TopFrame.pc = "P_sentinel" -> OpenGroups
               [] TopFrame.pc = "P_pop"      -> OpenGroups + 2
               [] OTHER                      -> OpenGroups + 1
    /\ Reducing =>
          /\ ~IsSentinel(top(operators))
          /\ IsBinOp(top(operators)) \/ IsUnOp(top(operators)) \/ IsFunc(top(operators))
          /\ Len(operands) >= Needs(top(operators))
    /\ Running("PE_return") => Len(operands) = 1 /\ operators = <<sentinel>>
    /\ status = "done" =>
          /\ operators = <<sentinel>>
          /\ operands = << >>
          /\ Whole(result)
          /\ \A n \in Subtrees(result) : ~IsSentinel(n)

\* a call's reduction inside a group inside an argument list
C9_Witness ==
    /\ Reducing
    /\ IsFunc(top(operators))
    /\ NumSentinels(operators) = 3
    /\ OpenGroups = 2
    /\ Needs(top(operators)) = 2
    /\ Len(operands) = 3

(***************************************************************************)
(* C10.  parse terminates on every input, returning a tree or raising an   *)
(* error: a call of consume that yields a token other than End leaves rest *)
(* strictly shorter; each test of E's binary-operator loop finds fewer     *)
(* tokens left than the test before it; and each reduction in the drain    *)
(* loops of E and pushOperator takes exactly one operator off the operator *)
(* stack.                                                                   *)
(***************************************************************************)
C10_Terminates ==
    /\ <>(status # "running")
    /\ [][Running("consume") /\ status' = "running" /\ next' # << >>
             => Len(rest') < Len(rest)]_allvars
    /\ [](Running("E_while") => Remaining < TopFrame.seen)
    /\ [][Reducing => Len(operators') = Len(operators) - 1]_allvars

\* the order-of-operations sample parsed to its end, through every loop
C10_Witness ==
    /\ status = "done"
    /\ inp = <<"5","+","3",".","1","2","*","2","^","4","/","1","+","3","*",
               "(","1","9","-","3",")">>
    /\ IsBinOp(result)
    /\ rest = << >>
    /\ next = << >>

====
